---- MODULE Spec2Model ----
(***************************************************************************)
(* Model of bessent.py: the Treasury Fiscal Data command-line client.      *)
(*                                                                         *)
(* Python values are modelled as records [t, v]: t is the type tag and v   *)
(* the characters of a string (a sequence of one-character strings; an     *)
(* opaque text such as a record date may be held as one chunk).            *)
(* Printed output is the sequence of lines written to standard output.     *)
(***************************************************************************)
EXTENDS Integers, Sequences, FiniteSets, TLC

VARIABLES
    pc,        \* position of main()
    out,       \* lines printed so far
    log,       \* HTTP requests issued so far, in order
    inflight,  \* requests issued and not yet answered
    today,     \* datetime.now() as read by main(): [y, m, d]
    cur,       \* index into main's currencies list
    raised,    \* an exception was raised inside main's try block
    failures,  \* requests that ended in a transport/HTTP failure
    op,        \* client harness: the method being called ("idle" if none)
    args,      \* client harness: its arguments
    req,       \* client harness: the request it built
    ret,       \* client harness: what the method returned
    escaped,   \* harness: an exception escaped the function under test
    amount,    \* format_currency harness: the input
    result,    \* format_currency harness: the returned value
    envelope,  \* display harness: the parsed JSON handed to a display function
    shown      \* display harness: which display function has run

vars == <<pc, out, log, inflight, today, cur, raised, failures,
          op, args, req, ret, escaped, amount, result, envelope, shown>>


(***************************************************************************)
(* Python values                                                           *)
(***************************************************************************)
None == [t |-> "none", v |-> <<>>]
Str(chars) == [t |-> "str", v |-> chars]
Num(chars) == [t |-> "num", v |-> chars]

RECURSIVE Join(_)
Join(s) == IF s = <<>> THEN "" ELSE Head(s) \o Join(Tail(s))

\* str(x) as an f-string renders it
PyStr(x) == IF x.t = "none" THEN "None" ELSE Join(x.v)

\* bool(x): None, "" and 0 are falsy
Truthy(x) ==
    CASE x.t = "none" -> FALSE
      [] x.t = "str"  -> x.v # <<>>
      [] x.t = "num"  -> x.v # <<"0">>

Lowers == <<"a","b","c","d","e","f","g","h","i","j","k","l","m",
            "n","o","p","q","r","s","t","u","v","w","x","y","z">>
Uppers == <<"A","B","C","D","E","F","G","H","I","J","K","L","M",
            "N","O","P","Q","R","S","T","U","V","W","X","Y","Z">>

IsLower(c) == \E i \in 1..Len(Lowers) : Lowers[i] = c
IsUpper(c) == \E i \in 1..Len(Uppers) : Uppers[i] = c
IsCased(c) == IsLower(c) \/ IsUpper(c)
UpperChar(c) ==
    IF IsLower(c) THEN Uppers[CHOOSE i \in 1..Len(Lowers) : Lowers[i] = c] ELSE c
LowerChar(c) ==
    IF IsUpper(c) THEN Lowers[CHOOSE i \in 1..Len(Uppers) : Uppers[i] = c] ELSE c

\* str.upper()
Upper(s) == [i \in 1..Len(s) |-> UpperChar(s[i])]

\* str.replace(old, new) for a one-character old
Replace(s, old, new) == [i \in 1..Len(s) |-> IF s[i] = old THEN new ELSE s[i]]

\* str.title(): a cased character is upper-cased after an uncased one (or at
\* the start) and lower-cased after a cased one
Title(s) ==
    [i \in 1..Len(s) |->
        IF i > 1 /\ IsCased(s[i - 1]) THEN LowerChar(s[i]) ELSE UpperChar(s[i])]

RECURSIVE Spaces(_)
Spaces(n) == IF n <= 0 THEN "" ELSE " " \o Spaces(n - 1)

\* f"{s:12}": left-justified in a field of at least `width` characters
PadRight(s, width) == Join(s) \o Spaces(width - Len(s))

Digits == <<"0","1","2","3","4","5","6","7","8","9">>
DigitChar(d) == Digits[d + 1]

\* the decimal digits of n >= 0
RECURSIVE IntChars(_)
IntChars(n) ==
    IF n < 10 THEN <<DigitChar(n)>> ELSE Append(IntChars(n \div 10), DigitChar(n % 10))

\* f"{n}" for n >= 0
IntStr(n) == Join(IntChars(n))

\* f"{n:02d}" for n >= 0: zero-padded to at least two digits
Pad2(n) == IF n < 10 THEN "0" \o DigitChar(n) ELSE IntStr(n)

\* f"{n:04d}" as strftime('%Y') renders a year
Pad4(n) ==
    IF n < 10 THEN "000" \o IntStr(n)
    ELSE IF n < 100 THEN "00" \o IntStr(n)
    ELSE IF n < 1000 THEN "0" \o IntStr(n)
    ELSE IntStr(n)

(***************************************************************************)
(* Calendar dates: datetime.now(), timedelta(days=7), strftime             *)
(***************************************************************************)
IsLeap(y) == (y % 4 = 0 /\ y % 100 # 0) \/ y % 400 = 0

DaysInMonth(y, m) ==
    IF m = 2 THEN (IF IsLeap(y) THEN 29 ELSE 28)
    ELSE IF m \in {4, 6, 9, 11} THEN 30 ELSE 31

\* dt - timedelta(days=n), for 0 <= n <= 28 (at most one month is crossed)
MinusDays(dt, n) ==
    IF dt.d > n THEN [y |-> dt.y, m |-> dt.m, d |-> dt.d - n]
    ELSE IF dt.m > 1
    THEN [y |-> dt.y, m |-> dt.m - 1, d |-> DaysInMonth(dt.y, dt.m - 1) + dt.d - n]
    ELSE [y |-> dt.y - 1, m |-> 12, d |-> 31 + dt.d - n]

\* dt.strftime('%Y-%m-%d')
Strftime(dt) == Pad4(dt.y) \o "-" \o Pad2(dt.m) \o "-" \o Pad2(dt.d)

\* the clock readings the model considers
Clock ==
    { [y |-> 2024, m |-> 3, d |-> 5],
      [y |-> 2024, m |-> 11, d |-> 17],
      [y |-> 2025, m |-> 1, d |-> 3] }

(***************************************************************************)
(* JSON envelopes and records                                              *)
(*   envelope: [keys, data]; keys are the top-level keys of the mapping,   *)
(*   data the value under "data": a list of records or JSON null.          *)
(*   record: [isMap, f]; f maps the field names present to their values.   *)
(***************************************************************************)
NullData == [t |-> "null", items |-> <<>>]
ListData(items) == [t |-> "list", items |-> items]

EmptyMap == [keys |-> {}, data |-> NullData]              \* {}
NoDataKey == [keys |-> {"error"}, data |-> NullData]      \* {"error": ...}
Envelope(d) == [keys |-> {"data", "meta"}, data |-> d]    \* {"data": d, "meta": ...}

MapRecord(f) == [isMap |-> TRUE, f |-> f]
NonMapRecord == [isMap |-> FALSE, f |-> <<>>]              \* e.g. a bare string

\* record.get(key, default)
Get(record, key, default) ==
    IF key \in DOMAIN record.f THEN record.f[key] ELSE default

(***************************************************************************)
(* TreasuryAPIClient                                                       *)
(***************************************************************************)
BaseUrl == "https://api.fiscaldata.treasury.gov/services/api/fiscal_service"

IntVal(n) == [t |-> "int", n |-> n]

\* truthiness of an optional argument (None, "" and 0 are falsy)
Given(x) == IF x.t = "int" THEN x.n # 0 ELSE Truthy(x)

\* ','.join(filters) and the conditional params['filter'] assignment
RECURSIVE JoinComma(_)
JoinComma(filters) ==
    IF Len(filters) = 1 THEN Head(filters)
    ELSE Head(filters) \o "," \o JoinComma(Tail(filters))

WithFilters(params, filters) ==
    IF filters # <<>>
    THEN [k \in DOMAIN params \cup {"filter"} |->
            IF k = "filter" THEN JoinComma(filters) ELSE params[k]]
    ELSE params

\* transport outcomes of session.get + raise_for_status
Failures == {"ConnectionError", "Timeout", "HTTPError"}
Outcomes == {"ok"} \cup Failures

\* TryGet with the failure not turned into an empty mapping
TryGetUnguarded(request, label, outcome, body) ==
    [req |-> request, ret |-> body, lines |-> <<>>]

\* try: get, raise_for_status, return response.json()
\* except RequestException: print the diagnostic, return {}
TryGet(request, label, outcome, body) ==
    IF outcome = "ok"
    THEN [req |-> request, ret |-> body, lines |-> <<>>]
    ELSE [req |-> request, ret |-> EmptyMap,
          lines |-> <<"Error fetching " \o label \o ": " \o outcome>>]

RatesRequest(date, limit) ==
    [endpoint |-> BaseUrl \o "/v1/accounting/od/avg_interest_rates",
     params |-> IF Given(date)
                THEN [limit |-> limit, sort |-> "-record_date",
                      filter |-> "record_date:eq:" \o PyStr(date)]
                ELSE [limit |-> limit, sort |-> "-record_date"]]

get_daily_treasury_rates(date, limit, outcome, body) ==
    TryGet(RatesRequest(date, limit), "treasury rates", outcome, body)

\* DebtFilters with the end bound appended before the start bound
DebtFiltersSwapped(start_date, end_date) ==
    (IF Given(end_date) THEN <<"record_date:lte:" \o PyStr(end_date)>> ELSE <<>>)
    \o (IF Given(start_date) THEN <<"record_date:gte:" \o PyStr(start_date)>> ELSE <<>>)

DebtFilters(start_date, end_date) ==
    (IF Given(start_date) THEN <<"record_date:gte:" \o PyStr(start_date)>> ELSE <<>>)
    \o (IF Given(end_date) THEN <<"record_date:lte:" \o PyStr(end_date)>> ELSE <<>>)

DebtRequest(start_date, end_date) ==
    [endpoint |-> BaseUrl \o "/v1/accounting/od/debt_to_penny",
     params |-> WithFilters([limit |-> 1000, sort |-> "-record_date"],
                            DebtFilters(start_date, end_date))]

get_debt_to_penny(start_date, end_date, outcome, body) ==
    TryGet(DebtRequest(start_date, end_date), "debt data", outcome, body)

\* DateFilter with the month formatted as f"{month}"
DateFilterUnpadded(year, month, now) ==
    LET y == IF Given(year) THEN year.n ELSE now.y
        m == IF Given(month) THEN month.n ELSE now.m
    IN  IntStr(y) \o "-" \o IntStr(m)

\* date_filter = f"{year}-{month:02d}" after defaulting to datetime.now()
DateFilter(year, month, now) ==
    LET y == IF Given(year) THEN year.n ELSE now.y
        m == IF Given(month) THEN month.n ELSE now.m
    IN  IntStr(y) \o "-" \o Pad2(m)

MtsRequest(year, month, now) ==
    [endpoint |-> BaseUrl \o "/v1/accounting/mts/mts_table_1",
     params |-> [filter |-> "record_date:like:" \o DateFilter(year, month, now),
                 limit |-> 100]]

get_monthly_treasury_statement(year, month, now, outcome, body) ==
    TryGet(MtsRequest(year, month, now), "treasury statement", outcome, body)

\* FxFilters without the .upper()
FxFiltersAsGiven(currency, date) ==
    (IF Given(currency) THEN <<"currency:eq:" \o Join(currency.v)>> ELSE <<>>)
    \o (IF Given(date) THEN <<"record_date:eq:" \o PyStr(date)>> ELSE <<>>)

FxFilters(currency, date) ==
    (IF Given(currency) THEN <<"currency:eq:" \o Join(Upper(currency.v))>> ELSE <<>>)
    \o (IF Given(date) THEN <<"record_date:eq:" \o PyStr(date)>> ELSE <<>>)

FxRequest(currency, date) ==
    [endpoint |-> BaseUrl \o "/v1/accounting/od/rates_of_exchange",
     params |-> WithFilters([limit |-> 200, sort |-> "-record_date"],
                            FxFilters(currency, date))]

get_exchange_rates(currency, date, outcome, body) ==
    TryGet(FxRequest(currency, date), "exchange rates", outcome, body)

(***************************************************************************)
(* format_currency                                                         *)
(***************************************************************************)
IsDigit(c) == \E i \in 1..Len(Digits) : Digits[i] = c
DigitVal(c) == (CHOOSE i \in 1..Len(Digits) : Digits[i] = c) - 1

\* amount.replace(',', ''): every comma removed
RECURSIVE StripCommas(_)
StripCommas(s) ==
    IF s = <<>> THEN <<>>
    ELSE IF Head(s) = "," THEN StripCommas(Tail(s))
    ELSE <<Head(s)>> \o StripCommas(Tail(s))

Lower(s) == [i \in 1..Len(s) |-> LowerChar(s[i])]

AllDigits(s) == \A i \in 1..Len(s) : IsDigit(s[i])

RECURSIVE DigitsVal(_)
DigitsVal(s) ==
    IF s = <<>> THEN 0 ELSE 10 * DigitsVal(SubSeq(s, 1, Len(s) - 1)) + DigitVal(s[Len(s)])

\* position of the first "." in s, or 0
PointAt(s) ==
    IF \E i \in 1..Len(s) : s[i] = "."
    THEN CHOOSE i \in 1..Len(s) : s[i] = "." /\ \A j \in 1..(i - 1) : s[j] # "."
    ELSE 0

\* float(s) for a text of sign, digits, decimal point, and the special
\* spellings nan / inf / infinity (any case).  kind "error" is ValueError.
ParseFloat(s) ==
    LET signed == s # <<>> /\ Head(s) \in {"-", "+"}
        neg    == s # <<>> /\ Head(s) = "-"
        body   == IF signed THEN Tail(s) ELSE s
        p      == PointAt(body)
        ip     == IF p = 0 THEN body ELSE SubSeq(body, 1, p - 1)
        fp     == IF p = 0 THEN <<>> ELSE SubSeq(body, p + 1, Len(body))
    IN  IF Lower(body) = <<"n","a","n">>
        THEN [kind |-> "nan", neg |-> FALSE, ip |-> <<>>, fp |-> <<>>]
        ELSE IF Lower(body) \in {<<"i","n","f">>, <<"i","n","f","i","n","i","t","y">>}
        THEN [kind |-> "inf", neg |-> neg, ip |-> <<>>, fp |-> <<>>]
        ELSE IF AllDigits(ip) /\ AllDigits(fp) /\ Len(ip) + Len(fp) > 0
        THEN [kind |-> "finite", neg |-> neg, ip |-> ip, fp |-> fp]
        ELSE [kind |-> "error", neg |-> FALSE, ip |-> <<>>, fp |-> <<>>]

\* the value in hundredths, rounded as ".2f" rounds: below half down, above
\* half up, an exact half to the even hundredth
Cents(x) ==
    LET f2   == SubSeq(x.fp \o <<"0","0">>, 1, 2)
        rest == IF Len(x.fp) > 2 THEN SubSeq(x.fp, 3, Len(x.fp)) ELSE <<>>
        base == 100 * DigitsVal(x.ip) + DigitsVal(f2)
        tailZero == \A i \in 2..Len(rest) : rest[i] = "0"
        up   == /\ rest # <<>>
                /\ \/ DigitVal(rest[1]) > 5
                   \/ DigitVal(rest[1]) = 5 /\ ~tailZero
                   \/ DigitVal(rest[1]) = 5 /\ tailZero /\ base % 2 = 1
    IN  IF up THEN base + 1 ELSE base

\* n >= 0 in at least `width` digits, zero-padded on the left
RECURSIVE ZeroPad(_, _)
ZeroPad(chars, width) ==
    IF Len(chars) >= width THEN chars ELSE ZeroPad(<<"0">> \o chars, width)

\* the "," grouping of an integer part
RECURSIVE Grouped(_)
Grouped(n) ==
    IF n < 1000 THEN IntChars(n)
    ELSE Grouped(n \div 1000) \o <<",">> \o ZeroPad(IntChars(n % 1000), 3)

\* f"{value:,.2f}", as characters
Format2f(x) ==
    CASE x.kind = "nan" -> <<"n", "a", "n">>
      [] x.kind = "inf" -> (IF x.neg THEN <<"-">> ELSE <<>>) \o <<"i", "n", "f">>
      [] x.kind = "finite" ->
            (IF x.neg THEN <<"-">> ELSE <<>>) \o Grouped(Cents(x) \div 100)
                \o <<".">> \o ZeroPad(IntChars(Cents(x) % 100), 2)

\* format_currency(amount): the returned value.  A non-string has no
\* .replace (AttributeError) and an unparsable text makes float() fail
\* (ValueError); both are caught and the input is returned.
format_currency(amt) ==
    IF amt.t # "str" THEN amt
    ELSE LET x == ParseFloat(StripCommas(amt.v))
         IN  IF x.kind = "error" THEN amt
             ELSE Str(<<"$">> \o Format2f(x))

(***************************************************************************)
(* Display functions.  Each returns [lines, raised]: the lines printed and *)
(* whether an exception left the function (the lines printed before the    *)
(* exception stay printed).                                                *)
(***************************************************************************)
Rule60 == "============================================================"
Rule30 == "------------------------------"

NA == Str(<<"N", "/", "A">>)

\* data['data'][:n]
Prefix(items, n) == SubSeq(items, 1, IF Len(items) < n THEN Len(items) ELSE n)

\* `not data or 'data' not in data`
NoData(data) == data.keys = {} \/ "data" \notin data.keys

\* rate_fields
RateFields ==
    << <<"1","_","m","o","n","t","h">>, <<"3","_","m","o","n","t","h">>,
       <<"6","_","m","o","n","t","h">>, <<"1","_","y","e","a","r">>,
       <<"2","_","y","e","a","r">>,     <<"5","_","y","e","a","r">>,
       <<"1","0","_","y","e","a","r">>, <<"3","0","_","y","e","a","r">> >>

\* RateShown with only `if field in record`
RateShownIfPresent(record, field) == Join(field) \in DOMAIN record.f

\* `if field in record and record[field]`
RateShown(record, field) ==
    Join(field) \in DOMAIN record.f /\ Truthy(record.f[Join(field)])

\* f"{rate_name:12}: {record[field]}%"
RateLine(record, field) ==
    PadRight(Title(Replace(field, "_", " ")), 12) \o ": "
        \o PyStr(record.f[Join(field)]) \o "%"

\* the inner `for field in rate_fields` loop, from position i
RECURSIVE RateLines(_, _)
RateLines(record, i) ==
    IF i > Len(RateFields) THEN <<>>
    ELSE (IF RateShown(record, RateFields[i])
          THEN <<RateLine(record, RateFields[i])>> ELSE <<>>)
         \o RateLines(record, i + 1)

\* one iteration of the record loop of display_treasury_rates
RateBlock(record) ==
    <<"", "Date: " \o PyStr(Get(record, "record_date", NA)), Rule30>>
        \o RateLines(record, 1)

\* the record loop: stops at the first record that is no mapping
RECURSIVE RateBlocks(_)
RateBlocks(records) ==
    IF records = <<>> THEN [lines |-> <<>>, raised |-> FALSE]
    ELSE IF ~Head(records).isMap THEN [lines |-> <<>>, raised |-> TRUE]
    ELSE LET rest == RateBlocks(Tail(records))
         IN  [lines |-> RateBlock(Head(records)) \o rest.lines, raised |-> rest.raised]

display_treasury_rates(data) ==
    IF NoData(data)
    THEN [lines |-> <<"No treasury rate data available">>, raised |-> FALSE]
    ELSE LET header == <<"", Rule60, "DAILY TREASURY YIELD CURVE RATES", Rule60>>
         IN  IF data.data.t # "list" THEN [lines |-> header, raised |-> TRUE]
             ELSE LET body == RateBlocks(Prefix(data.data.items, 10))
                  IN  [lines |-> header \o body.lines, raised |-> body.raised]

\* one iteration of the record loop of display_debt_data
DebtBlock(record) ==
    <<"", "Date: " \o PyStr(Get(record, "record_date", NA)),
      "Total Public Debt: "
          \o PyStr(format_currency(Get(record, "tot_pub_debt_out_amt", NA)))>>

RECURSIVE DebtBlocks(_)
DebtBlocks(records) ==
    IF records = <<>> THEN [lines |-> <<>>, raised |-> FALSE]
    ELSE IF ~Head(records).isMap THEN [lines |-> <<>>, raised |-> TRUE]
    ELSE LET rest == DebtBlocks(Tail(records))
         IN  [lines |-> DebtBlock(Head(records)) \o rest.lines, raised |-> rest.raised]

display_debt_data(data) ==
    IF NoData(data)
    THEN [lines |-> <<"No debt data available">>, raised |-> FALSE]
    ELSE LET header == <<"", Rule60, "U.S. DEBT TO THE PENNY", Rule60>>
         IN  IF data.data.t # "list" THEN [lines |-> header, raised |-> TRUE]
             ELSE LET body == DebtBlocks(Prefix(data.data.items, 5))
                  IN  [lines |-> header \o body.lines, raised |-> body.raised]

(***************************************************************************)
(* main(): the inline exchange-rate and monthly-statement displays         *)
(***************************************************************************)
\* currencies in another order
CurrenciesReordered ==
    << <<"E","U","R">>, <<"J","P","Y">>, <<"G","B","P">>, <<"C","A","D">> >>

\* currencies
Currencies == << <<"E","U","R">>, <<"G","B","P">>, <<"J","P","Y">>, <<"C","A","D">> >>

\* `if exchange_data and 'data' in exchange_data and exchange_data['data']:`
\* then one line for exchange_data['data'][0]
FxDisplay(currency, exchange_data) ==
    IF NoData(exchange_data) \/ exchange_data.data.items = <<>>
    THEN [lines |-> <<>>, raised |-> FALSE]
    ELSE LET latest_rate == exchange_data.data.items[1]
         IN  IF ~latest_rate.isMap THEN [lines |-> <<>>, raised |-> TRUE]
             ELSE [lines |-> <<Join(currency) \o "/USD: "
                                \o PyStr(Get(latest_rate, "exchange_rate", NA))
                                \o " (as of "
                                \o PyStr(Get(latest_rate, "record_date", NA)) \o ")">>,
                   raised |-> FALSE]

\* `if mts_data and 'data' in mts_data:` header, then `if mts_data['data']:`
\* four lines for mts_data['data'][0]
MtsDisplay(mts_data) ==
    IF NoData(mts_data) THEN [lines |-> <<>>, raised |-> FALSE]
    ELSE LET header == <<"", Rule60, "MONTHLY TREASURY STATEMENT (Latest)", Rule60>>
         IN  IF mts_data.data.items = <<>> THEN [lines |-> header, raised |-> FALSE]
             ELSE LET latest_mts == mts_data.data.items[1]
                  IN  IF ~latest_mts.isMap THEN [lines |-> header, raised |-> TRUE]
                      ELSE [lines |-> header \o
                             <<"Date: " \o PyStr(Get(latest_mts, "record_date", NA)),
                               "Classification: "
                                 \o PyStr(Get(latest_mts, "classification_desc", NA)),
                               "Current Month: " \o PyStr(format_currency(
                                   Get(latest_mts, "current_month_net_amt", Str(<<"0">>)))),
                               "Fiscal YTD: " \o PyStr(format_currency(
                                   Get(latest_mts, "fiscal_year_to_date_net_amt",
                                       Str(<<"0">>))))>>,
                            raised |-> FALSE]

(***************************************************************************)
(* Responses the server may give to main's requests                        *)
(***************************************************************************)
RateRecA ==
    MapRecord("record_date" :> Str(<<"2024-03-01">>) @@ "1_month" :> Str(<<"5.1">>)
              @@ "10_year" :> Str(<<>>) @@ "30_year" :> Str(<<"4.4">>))
DebtRecA ==
    MapRecord("record_date" :> Str(<<"2024-03-01">>)
              @@ "tot_pub_debt_out_amt" :> Str(<<"3","4","5","6","7",".","8","9">>))
FxRecA ==
    MapRecord("record_date" :> Str(<<"2023-12-31">>) @@ "exchange_rate" :> Str(<<"0.9">>))
MtsRecA ==
    MapRecord("record_date" :> Str(<<"2024-03-31">>)
              @@ "classification_desc" :> Str(<<"Total Receipts">>)
              @@ "current_month_net_amt" :> Str(<<"1","2","3","4">>))

RatesBodies ==
    { Envelope(ListData(<<RateRecA>>)), Envelope(ListData(<<>>)),
      Envelope(ListData(<<RateRecA, NonMapRecord>>)), Envelope(NullData) }
DebtBodies ==
    { Envelope(ListData(<<DebtRecA>>)), Envelope(ListData(<<NonMapRecord>>)) }
FxBodies ==
    { Envelope(ListData(<<FxRecA>>)), Envelope(ListData(<<>>)),
      Envelope(ListData(<<NonMapRecord>>)) }
MtsBodies ==
    { Envelope(ListData(<<MtsRecA>>)), Envelope(ListData(<<>>)),
      Envelope(ListData(<<NonMapRecord>>)) }

\* what a request of main may end in: a response, a transport failure or a
\* non-2xx status
MainOutcomes == {"ok", "ConnectionError", "HTTPError"}

(***************************************************************************)
(* main()                                                                  *)
(***************************************************************************)
harnessVars == <<op, args, req, ret, escaped, amount, result, envelope, shown>>

NoRequest == [endpoint |-> "", params |-> <<>>]

Init ==
    /\ pc = "start"
    /\ out = <<>>
    /\ log = <<>>
    /\ inflight = <<>>
    /\ today \in Clock
    /\ cur = 1
    /\ raised = FALSE
    /\ failures = <<>>
    /\ op = "main"
    /\ args = <<>>
    /\ req = NoRequest
    /\ ret = EmptyMap
    /\ escaped = FALSE
    /\ amount = None
    /\ result = None
    /\ envelope = EmptyMap
    /\ shown = "none"

\* session.get(...) is entered: the request is on the wire
Issue(request, announce, next) ==
    /\ out' = out \o announce
    /\ log' = Append(log, request)
    /\ inflight' = Append(inflight, request)
    /\ pc' = next
    /\ UNCHANGED <<today, cur, raised, failures, harnessVars>>

\* session.get(...) has returned or raised; the rest of the step runs
Answer(step, outcome, fetched, display, next) ==
    /\ out' = out \o fetched.lines \o display.lines
    /\ inflight' = Tail(inflight)
    /\ failures' = IF outcome = "ok" THEN failures ELSE Append(failures, step)
    /\ raised' = display.raised
    /\ pc' = IF display.raised THEN "except" ELSE next
    /\ UNCHANGED <<log, today, harnessVars>>

MainStart ==
    /\ pc = "start"
    /\ out' = out \o <<"Bessent - Treasury API Client", "===============================">>
    /\ pc' = "rates"
    /\ UNCHANGED <<log, inflight, today, cur, raised, failures, harnessVars>>

RatesCall ==
    /\ pc = "rates"
    /\ Issue(RatesRequest(None, 5), <<"", "1. Fetching latest Treasury rates...">>,
             "rates_wait")

RatesReturn ==
    /\ pc = "rates_wait"
    /\ \E outcome \in MainOutcomes, body \in RatesBodies :
         LET fetched == get_daily_treasury_rates(None, 5, outcome, body)
         IN  Answer("rates", outcome, fetched, display_treasury_rates(fetched.ret), "debt")
    /\ UNCHANGED cur

\* start_date=last_week.strftime('%Y-%m-%d'), end_date=today.strftime('%Y-%m-%d')
DebtWindow ==
    [start_date |-> Str(<<Strftime(MinusDays(today, 7))>>),
     end_date |-> Str(<<Strftime(today)>>)]

DebtCall ==
    /\ pc = "debt"
    /\ Issue(DebtRequest(DebtWindow.start_date, DebtWindow.end_date),
             <<"", "2. Fetching recent debt data...">>, "debt_wait")

DebtReturn ==
    /\ pc = "debt_wait"
    /\ \E outcome \in MainOutcomes, body \in DebtBodies :
         LET fetched == get_debt_to_penny(DebtWindow.start_date, DebtWindow.end_date,
                                          outcome, body)
         IN  Answer("debt", outcome, fetched, display_debt_data(fetched.ret), "fx_header")
    /\ UNCHANGED cur

ExchangeHeader ==
    /\ pc = "fx_header"
    /\ out' = out \o <<"", "3. Fetching exchange rates...", "", Rule60,
                       "TREASURY EXCHANGE RATES", Rule60>>
    /\ cur' = 1
    /\ pc' = "fx"
    /\ UNCHANGED <<log, inflight, today, raised, failures, harnessVars>>

ExchangeCall ==
    /\ pc = "fx"
    /\ Issue(FxRequest(Str(Currencies[cur]), None), <<>>, "fx_wait")

ExchangeReturn ==
    /\ pc = "fx_wait"
    /\ \E outcome \in MainOutcomes, body \in FxBodies :
         LET fetched == get_exchange_rates(Str(Currencies[cur]), None, outcome, body)
         IN  Answer("fx", outcome, fetched, FxDisplay(Currencies[cur], fetched.ret),
                    IF cur < Len(Currencies) THEN "fx" ELSE "mts")
    /\ cur' = cur + 1

MtsCall ==
    /\ pc = "mts"
    /\ Issue(MtsRequest(None, None, today),
             <<"", "4. Fetching Monthly Treasury Statement...">>, "mts_wait")

MtsReturn ==
    /\ pc = "mts_wait"
    /\ \E outcome \in MainOutcomes, body \in MtsBodies :
         LET fetched == get_monthly_treasury_statement(None, None, today, outcome, body)
         IN  Answer("mts", outcome, fetched, MtsDisplay(fetched.ret), "banner")
    /\ UNCHANGED cur

\* HandleException returning from main after its message
HandleExceptionReturns ==
    /\ pc = "except"
    /\ out' = Append(out, "An error occurred: exception")
    /\ pc' = "done"
    /\ UNCHANGED <<log, inflight, today, cur, raised, failures, harnessVars>>

\* except Exception as e: print(f"An error occurred: {e}")
HandleException ==
    /\ pc = "except"
    /\ out' = Append(out, "An error occurred: exception")
    /\ pc' = "banner"
    /\ UNCHANGED <<log, inflight, today, cur, raised, failures, harnessVars>>

ClosingBanner ==
    <<"", Rule60,
      "API Documentation: https://fiscaldata.treasury.gov/api-documentation/", Rule60>>

Banner ==
    /\ pc = "banner"
    /\ out' = out \o ClosingBanner
    /\ pc' = "done"
    /\ UNCHANGED <<log, inflight, today, cur, raised, failures, harnessVars>>

Next ==
    \/ MainStart
    \/ RatesCall
    \/ RatesReturn
    \/ DebtCall
    \/ DebtReturn
    \/ ExchangeHeader
    \/ ExchangeCall
    \/ ExchangeReturn
    \/ MtsCall
    \/ MtsReturn
    \/ HandleException
    \/ Banner

Spec == Init /\ [][Next]_vars

\* main runs to completion: every step that can be taken eventually is, and
\* every request is eventually answered or fails
FairSpec == Spec /\ WF_vars(Next)

(***************************************************************************)
(* format_currency called on its own                                       *)
(***************************************************************************)
MaxAmountLen == 4

AmountAlphabet == {"0", "1", ",", ".", "-", "n", "a"}

\* all texts over AmountAlphabet of length at most n
RECURSIVE Texts(_)
Texts(n) ==
    IF n = 0 THEN {<<>>}
    ELSE Texts(n - 1) \cup
         {Append(t, c) : t \in {u \in Texts(n - 1) : Len(u) = n - 1}, c \in AmountAlphabet}

\* the inputs: every short text, the documented examples, and values that
\* are no text at all (None, a JSON number)
Amounts ==
    {Str(t) : t \in Texts(MaxAmountLen)} \cup
    { Str(<<"1",",","2","3","4",",","5","6","7",".","8","9">>),
      Str(<<"a","b","c">>), Str(<<"-","I","n","f">>), Str(<<"9","9","9",".","9","9","6">>),
      None, Num(<<"1","2">>) }

InitFormat ==
    /\ amount \in Amounts
    /\ result = None
    /\ op = "idle"
    /\ escaped = FALSE
    /\ pc = "format"
    /\ out = <<>>
    /\ log = <<>>
    /\ inflight = <<>>
    /\ today \in {CHOOSE c \in Clock : TRUE}
    /\ cur = 1
    /\ raised = FALSE
    /\ failures = <<>>
    /\ args = <<>>
    /\ req = NoRequest
    /\ ret = EmptyMap
    /\ envelope = EmptyMap
    /\ shown = "none"

FormatCurrency ==
    /\ pc = "format"
    /\ op = "idle"
    /\ op' = "format_currency"
    /\ result' = format_currency(amount)
    /\ UNCHANGED <<pc, out, log, inflight, today, cur, raised, failures,
                   args, req, ret, escaped, amount, envelope, shown>>

NextFormat == FormatCurrency

SpecFormat == InitFormat /\ [][NextFormat]_vars

(***************************************************************************)
(* The client's methods called on their own, with any arguments            *)
(***************************************************************************)
DateArgs == {None, Str(<<"2024-01-01">>), Str(<<"2024-01-31">>)}
LimitArgs == {1, 5, 100}
YearArgs == {None, IntVal(2024), IntVal(2025)}
MonthArgs == {None} \cup {IntVal(m) : m \in 1..12}
CurrencyArgs == {None, Str(<<"e","u","r">>), Str(<<"G","b","p">>), Str(<<"J","P","Y">>)}
ClientBodies == {EmptyMap, Envelope(ListData(<<>>)), Envelope(ListData(<<DebtRecA>>))}

InitClient ==
    /\ pc = "client"
    /\ op = "idle"
    /\ args = <<>>
    /\ req = NoRequest
    /\ ret = EmptyMap
    /\ out = <<>>
    /\ today \in Clock
    /\ escaped = FALSE
    /\ log = <<>>
    /\ inflight = <<>>
    /\ cur = 1
    /\ raised = FALSE
    /\ failures = <<>>
    /\ amount = None
    /\ result = None
    /\ envelope = EmptyMap
    /\ shown = "none"

\* one call of a client method: the request it sends, what it prints and returns
Called(name, arguments, call) ==
    /\ op' = name
    /\ args' = arguments
    /\ req' = call.req
    /\ ret' = call.ret
    /\ out' = out \o call.lines
    /\ UNCHANGED <<pc, log, inflight, today, cur, raised, failures, escaped,
                   amount, result, envelope, shown>>

GetDailyTreasuryRates ==
    /\ pc = "client" /\ op = "idle"
    /\ \E date \in DateArgs, limit \in LimitArgs, outcome \in Outcomes, body \in ClientBodies :
           Called("get_daily_treasury_rates",
                  [date |-> date, limit |-> limit, outcome |-> outcome, body |-> body],
                  get_daily_treasury_rates(date, limit, outcome, body))

GetDebtToPenny ==
    /\ pc = "client" /\ op = "idle"
    /\ \E start_date \in DateArgs, end_date \in DateArgs,
          outcome \in Outcomes, body \in ClientBodies :
           Called("get_debt_to_penny",
                  [start_date |-> start_date, end_date |-> end_date,
                   outcome |-> outcome, body |-> body],
                  get_debt_to_penny(start_date, end_date, outcome, body))

GetMonthlyTreasuryStatement ==
    /\ pc = "client" /\ op = "idle"
    /\ \E year \in YearArgs, month \in MonthArgs, outcome \in Outcomes, body \in ClientBodies :
           Called("get_monthly_treasury_statement",
                  [year |-> year, month |-> month, outcome |-> outcome, body |-> body],
                  get_monthly_treasury_statement(year, month, today, outcome, body))

GetExchangeRates ==
    /\ pc = "client" /\ op = "idle"
    /\ \E currency \in CurrencyArgs, date \in DateArgs,
          outcome \in Outcomes, body \in ClientBodies :
           Called("get_exchange_rates",
                  [currency |-> currency, date |-> date, outcome |-> outcome, body |-> body],
                  get_exchange_rates(currency, date, outcome, body))

NextClient ==
    \/ GetDailyTreasuryRates
    \/ GetDebtToPenny
    \/ GetMonthlyTreasuryStatement
    \/ GetExchangeRates

SpecClient == InitClient /\ [][NextClient]_vars

(***************************************************************************)
(* The display functions called on their own                               *)
(***************************************************************************)
MaxRecords == 11

FullRec ==
    MapRecord("record_date" :> Str(<<"2024-03-01">>)
              @@ "1_month" :> Str(<<"5.1">>) @@ "3_month" :> Str(<<"5.2">>)
              @@ "6_month" :> Str(<<"5.3">>) @@ "1_year" :> Str(<<"5.0">>)
              @@ "2_year" :> Str(<<"4.6">>) @@ "5_year" :> Str(<<"4.2">>)
              @@ "10_year" :> Str(<<"4.1">>) @@ "30_year" :> Str(<<"4.3">>)
              @@ "tot_pub_debt_out_amt" :> Str(<<"1","2","3","4","5",".","5">>))

\* no 1_month, an empty 6_month, a null 2_year, no date, no debt amount
PartRec ==
    MapRecord("3_month" :> Str(<<"5.2">>) @@ "6_month" :> Str(<<>>)
              @@ "1_year" :> Str(<<"5.0">>) @@ "2_year" :> None
              @@ "10_year" :> Str(<<"4.1">>) @@ "avg_rate" :> Str(<<"3.3">>))

RECURSIVE RecordLists(_)
RecordLists(n) ==
    IF n = 0 THEN {<<>>}
    ELSE RecordLists(n - 1) \cup
         {Append(l, r) : l \in {k \in RecordLists(n - 1) : Len(k) = n - 1},
                         r \in {FullRec, PartRec}}

DisplayEnvelopes ==
    { EmptyMap, NoDataKey, [keys |-> {"data"}, data |-> ListData(<<>>)],
      Envelope(NullData), Envelope(ListData(<<FullRec, NonMapRecord, FullRec>>)) }
    \cup {Envelope(ListData(l)) : l \in RecordLists(MaxRecords)}

InitDisplay ==
    /\ pc = "display"
    /\ envelope \in DisplayEnvelopes
    /\ shown = "none"
    /\ out = <<>>
    /\ escaped = FALSE
    /\ op = "idle"
    /\ args = <<>>
    /\ req = NoRequest
    /\ ret = EmptyMap
    /\ today \in {CHOOSE c \in Clock : TRUE}
    /\ log = <<>>
    /\ inflight = <<>>
    /\ cur = 1
    /\ raised = FALSE
    /\ failures = <<>>
    /\ amount = None
    /\ result = None

Displayed(name, display) ==
    /\ shown' = name
    /\ out' = out \o display.lines
    /\ escaped' = display.raised
    /\ UNCHANGED <<pc, log, inflight, today, cur, raised, failures,
                   op, args, req, ret, amount, result, envelope>>

DisplayTreasuryRates ==
    /\ pc = "display" /\ shown = "none"
    /\ Displayed("display_treasury_rates", display_treasury_rates(envelope))

DisplayDebtData ==
    /\ pc = "display" /\ shown = "none"
    /\ Displayed("display_debt_data", display_debt_data(envelope))

NextDisplay ==
    \/ DisplayTreasuryRates
    \/ DisplayDebtData

SpecDisplay == InitDisplay /\ [][NextDisplay]_vars

(***************************************************************************)
(* Properties of the client methods (SpecClient)                           *)
(***************************************************************************)
FailureLabel ==
    [get_daily_treasury_rates |-> "treasury rates",
     get_debt_to_penny |-> "debt data",
     get_monthly_treasury_statement |-> "treasury statement",
     get_exchange_rates |-> "exchange rates"]

\* C1: whichever of the four fetch operations is called, with whatever
\* arguments, a transport failure or non-2xx status makes it print one
\* diagnostic line naming the operation and return the empty mapping; no
\* exception reaches the caller.
C1_FailureGivesEmptyMapping ==
    (op \in DOMAIN FailureLabel /\ args.outcome \in {"ConnectionError", "Timeout", "HTTPError"})
        => /\ ret.keys = {}
           /\ out = <<"Error fetching " \o FailureLabel[op] \o ": " \o args.outcome>>
           /\ ~escaped

C1_Witness ==
    /\ op = "get_exchange_rates"
    /\ args.outcome = "HTTPError"
    /\ args.currency # None /\ args.date # None
    /\ args.body.keys # {}
    /\ ret.keys = {}
    /\ out = <<"Error fetching exchange rates: HTTPError">>

\* C6: get_debt_to_penny builds its filter from exactly the bounds supplied
\* (gte for start_date, lte for end_date, gte first and comma-joined when
\* both, no filter parameter when neither), always with limit 1000 and a
\* descending sort on record_date.
C6_DebtFilterFromBounds ==
    op = "get_debt_to_penny" =>
        LET gte == "record_date:gte:" \o PyStr(args.start_date)
            lte == "record_date:lte:" \o PyStr(args.end_date)
            base == [limit |-> 1000, sort |-> "-record_date"]
            has(x) == x # None
        IN  /\ req.params.limit = 1000
            /\ req.params.sort = "-record_date"
            /\ (has(args.start_date) /\ ~has(args.end_date)) =>
                   req.params = [limit |-> 1000, sort |-> "-record_date", filter |-> gte]
            /\ (~has(args.start_date) /\ has(args.end_date)) =>
                   req.params = [limit |-> 1000, sort |-> "-record_date", filter |-> lte]
            /\ (has(args.start_date) /\ has(args.end_date)) =>
                   req.params = [limit |-> 1000, sort |-> "-record_date",
                                 filter |-> gte \o "," \o lte]
            /\ (~has(args.start_date) /\ ~has(args.end_date)) => req.params = base

C6_Witness ==
    /\ op = "get_debt_to_penny"
    /\ args.start_date = Str(<<"2024-01-01">>)
    /\ args.end_date = Str(<<"2024-01-31">>)
    /\ req.params.filter = "record_date:gte:2024-01-01,record_date:lte:2024-01-31"

TwoDigitMonth == <<"01", "02", "03", "04", "05", "06", "07", "08", "09", "10", "11", "12">>
FourDigitYear(y) == IF y = 2024 THEN "2024" ELSE IF y = 2025 THEN "2025" ELSE "?"

\* C7: get_monthly_treasury_statement always sends the filter
\* record_date:like:YYYY-MM with a two-digit, zero-padded month, for every
\* month 1..12; a year or month that is not given is the current one.
C7_MonthlyFilterZeroPadded ==
    op = "get_monthly_treasury_statement" =>
        LET y == IF args.year = None THEN today.y ELSE args.year.n
            m == IF args.month = None THEN today.m ELSE args.month.n
        IN  /\ req.params.filter =
                   "record_date:like:" \o FourDigitYear(y) \o "-" \o TwoDigitMonth[m]
            /\ req.params.limit = 100

C7_Witness ==
    /\ op = "get_monthly_treasury_statement"
    /\ args.year = IntVal(2024) /\ args.month = IntVal(3)
    /\ req.params.filter = "record_date:like:2024-03"

C7_WitnessDefaults ==
    /\ op = "get_monthly_treasury_statement"
    /\ args.year = None /\ args.month = None
    /\ today = [y |-> 2025, m |-> 1, d |-> 3]
    /\ req.params.filter = "record_date:like:2025-01"

UpperCode(currency) ==
    IF currency = Str(<<"e","u","r">>) THEN "EUR"
    ELSE IF currency = Str(<<"G","b","p">>) THEN "GBP"
    ELSE IF currency = Str(<<"J","P","Y">>) THEN "JPY" ELSE "?"

\* C8: get_exchange_rates sends the clause currency:eq:<CODE>, with the code
\* upper-cased, iff a currency is given, the clause record_date:eq:<date> iff
\* a date is given, the two comma-joined with the currency first when both
\* are given, and no filter parameter when neither is.
C8_ExchangeFiltersCombine ==
    op = "get_exchange_rates" =>
        LET cc == "currency:eq:" \o UpperCode(args.currency)
            dc == "record_date:eq:" \o PyStr(args.date)
            has(x) == x # None
        IN  /\ req.params.limit = 200
            /\ req.params.sort = "-record_date"
            /\ (has(args.currency) /\ ~has(args.date)) => req.params.filter = cc
            /\ (~has(args.currency) /\ has(args.date)) => req.params.filter = dc
            /\ (has(args.currency) /\ has(args.date)) =>
                   req.params.filter = cc \o "," \o dc
            /\ (~has(args.currency) /\ ~has(args.date)) =>
                   "filter" \notin DOMAIN req.params

C8_Witness ==
    /\ op = "get_exchange_rates"
    /\ args.currency = Str(<<"e","u","r">>)
    /\ args.date = Str(<<"2024-01-31">>)
    /\ req.params.filter = "currency:eq:EUR,record_date:eq:2024-01-31"

(***************************************************************************)
(* Properties of format_currency (SpecFormat)                              *)
(***************************************************************************)
\* digits in groups of three separated by ",", the first group of 1..3
GroupedDigits(g) ==
    /\ Len(g) >= 1
    /\ Len(g) % 4 # 0
    /\ \A i \in 1..Len(g) :
         IF (Len(g) - i + 1) % 4 = 0 THEN g[i] = "," ELSE IsDigit(g[i])

\* "$", an optional "-", grouped digits, ".", two digits
IsMoneyText(c) ==
    /\ Len(c) >= 5
    /\ c[1] = "$"
    /\ LET body == IF c[2] = "-" THEN SubSeq(c, 3, Len(c)) ELSE SubSeq(c, 2, Len(c))
           n == Len(body)
       IN  /\ n >= 4
           /\ body[n - 2] = "."
           /\ IsDigit(body[n - 1]) /\ IsDigit(body[n])
           /\ GroupedDigits(SubSeq(body, 1, n - 3))

\* C9: format_currency never raises; it returns either its input unchanged
\* (when the input is no parsable number: "abc", None) or the number
\* rendered with a leading $, thousands separators and two decimals
\* ("1,234,567.89" gives "$1,234,567.89").
C9_FormatCurrencyTotal ==
    op = "format_currency" =>
        /\ ~escaped
        /\ result = amount \/ (result.t = "str" /\ IsMoneyText(result.v))
        /\ amount.t # "str" => result = amount
        /\ amount = Str(<<"a","b","c">>) => result = amount
        /\ amount = Str(<<"1",",","2","3","4",",","5","6","7",".","8","9">>) =>
               PyStr(result) = "$1,234,567.89"

\* the documented examples, one by one
C9_Examples ==
    op = "format_currency" =>
        /\ amount.t # "str" => result = amount
        /\ amount = Str(<<"a","b","c">>) => result = amount
        /\ amount = Str(<<"1",",","2","3","4",",","5","6","7",".","8","9">>) =>
               PyStr(result) = "$1,234,567.89"
        /\ amount = Str(<<"1","1","1","1">>) => PyStr(result) = "$1,111.00"

\* every returned text that is not the input is money text, unless the input
\* spells nan or inf
C9_MoneyUnlessSpecial ==
    (op = "format_currency" /\ result # amount) =>
        \/ IsMoneyText(result.v)
        \/ ParseFloat(StripCommas(amount.v)).kind \in {"nan", "inf"}

(***************************************************************************)
(* Properties of the display functions (SpecDisplay)                       *)
(***************************************************************************)
NoDataMessage ==
    [display_treasury_rates |-> "No treasury rate data available",
     display_debt_data |-> "No debt data available"]

\* C3: display_treasury_rates and display_debt_data, given {} or
\* {"data": []}, print the "no data available" message and nothing else.
C3_EmptyPrintsOnlyNoData ==
    (/\ shown \in DOMAIN NoDataMessage
     /\ \/ envelope.keys = {}
        \/ "data" \in envelope.keys /\ envelope.data = [t |-> "list", items |-> <<>>])
        => out = <<NoDataMessage[shown]>>

\* what the code does print for each of the two inputs
C3_Observed ==
    shown \in DOMAIN NoDataMessage =>
        /\ envelope.keys = {} => out = <<NoDataMessage[shown]>>
        /\ ("data" \in envelope.keys /\ envelope.data.items = <<>>) =>
               /\ Len(out) = 4
               /\ out[1] = "" /\ out[2] = Rule60 /\ out[4] = Rule60

ExpectedRateBlock(record) ==
    IF "1_month" \in DOMAIN record.f
    THEN <<"", "Date: 2024-03-01", "------------------------------",
           "1 Month     : 5.1%", "3 Month     : 5.2%", "6 Month     : 5.3%",
           "1 Year      : 5.0%", "2 Year      : 4.6%", "5 Year      : 4.2%",
           "10 Year     : 4.1%", "30 Year     : 4.3%">>
    ELSE <<"", "Date: N/A", "------------------------------",
           "3 Month     : 5.2%", "1 Year      : 5.0%", "10 Year     : 4.1%">>

RECURSIVE ExpectedRateBlocks(_, _)
ExpectedRateBlocks(records, n) ==
    IF n = 0 THEN <<>>
    ELSE ExpectedRateBlocks(records, n - 1) \o ExpectedRateBlock(records[n])

\* C10: display_treasury_rates, given n records, prints after its header
\* exactly min(n, 10) date blocks, in input order, each holding one labelled
\* line per tenor field that is present and non-empty, in the fixed tenor
\* order.
C10_RateBlocks ==
    (/\ shown = "display_treasury_rates"
     /\ "data" \in envelope.keys
     /\ envelope.data.t = "list"
     /\ \A i \in 1..Len(envelope.data.items) : envelope.data.items[i].isMap) =>
        LET records == envelope.data.items
            n == IF Len(records) < 10 THEN Len(records) ELSE 10
        IN  /\ out = <<"", "============================================================",
                       "DAILY TREASURY YIELD CURVE RATES",
                       "============================================================">>
                     \o ExpectedRateBlocks(records, n)
            /\ ~escaped

C10_Witness ==
    /\ shown = "display_treasury_rates"
    /\ "data" \in envelope.keys
    /\ Len(envelope.data.items) = 11
    /\ envelope.data.items[1] = PartRec
    /\ \A i \in 2..11 : envelope.data.items[i] = FullRec
    /\ Len(out) = 4 + 6 + 9 * 11
    /\ out[6] = "Date: N/A"
    /\ out[Len(out)] = "30 Year     : 4.3%"

\* five records of eight tenors each: five blocks of eight labelled lines
C10_FiveFull ==
    (/\ shown = "display_treasury_rates" /\ "data" \in envelope.keys
     /\ Len(envelope.data.items) = 5
     /\ \A i \in 1..5 : envelope.data.items[i] = FullRec)
        => Len(out) = 4 + 5 * (3 + 8)

(***************************************************************************)
(* Properties of main (Spec, FairSpec)                                     *)
(***************************************************************************)
ApiRoot == "https://api.fiscaldata.treasury.gov/services/api/fiscal_service/v1/accounting"

\* the 7-day window and the month main asks for, by the day it runs
ExpectedWindow(dt) ==
    IF dt = [y |-> 2024, m |-> 3, d |-> 5]
    THEN [gte |-> "2024-02-27", lte |-> "2024-03-05", month |-> "2024-03"]
    ELSE IF dt = [y |-> 2024, m |-> 11, d |-> 17]
    THEN [gte |-> "2024-11-10", lte |-> "2024-11-17", month |-> "2024-11"]
    ELSE [gte |-> "2024-12-27", lte |-> "2025-01-03", month |-> "2025-01"]

ExpectedFx(code) ==
    [endpoint |-> ApiRoot \o "/od/rates_of_exchange",
     params |-> [limit |-> 200, sort |-> "-record_date", filter |-> "currency:eq:" \o code]]

\* the requests of a complete run, in order
ExpectedRequests(dt) ==
    << [endpoint |-> ApiRoot \o "/od/avg_interest_rates",
        params |-> [limit |-> 5, sort |-> "-record_date"]],
       [endpoint |-> ApiRoot \o "/od/debt_to_penny",
        params |-> [limit |-> 1000, sort |-> "-record_date",
                    filter |-> "record_date:gte:" \o ExpectedWindow(dt).gte
                               \o ",record_date:lte:" \o ExpectedWindow(dt).lte]],
       ExpectedFx("EUR"), ExpectedFx("GBP"), ExpectedFx("JPY"), ExpectedFx("CAD"),
       [endpoint |-> ApiRoot \o "/mts/mts_table_1",
        params |-> [filter |-> "record_date:like:" \o ExpectedWindow(dt).month,
                    limit |-> 100]] >>

\* C2: the four dataset steps of main are independent: whatever fails in one
\* step (a transport or HTTP error, a malformed response, an unexpected
\* exception), the later steps are still fetched and displayed, so a
\* finished run has issued all seven requests.
C2_StepsIndependent ==
    pc = "done" => log = ExpectedRequests(today)

\* the part of C2 that the code keeps: transport and HTTP failures alone
\* never stop the later steps
C2_TransportFailuresDoNotBlock ==
    (pc = "done" /\ ~raised) => log = ExpectedRequests(today)

\* the last n lines printed
LastLines(n) == SubSeq(out, Len(out) - n + 1, Len(out))

RanToBanner ==
    /\ Len(out) >= 4
    /\ LastLines(4) =
         <<"", "============================================================",
           "API Documentation: https://fiscaldata.treasury.gov/api-documentation/",
           "============================================================">>
    /\ raised => (Len(out) >= 5 /\ out[Len(out) - 4] = "An error occurred: exception")
    /\ inflight = <<>>

\* C4: every execution of main eventually prints the closing banner and
\* returns, whatever each fetch gave and whatever exception was raised in
\* the steps; after an exception the generic failure message comes right
\* before the banner.
C4_MainAlwaysReachesBanner ==
    /\ <>(pc = "done")
    /\ [](pc = "done" => RanToBanner)

C4_Witness ==
    /\ pc = "done"
    /\ raised
    /\ failures # <<>>
    /\ Len(log) < 7
    /\ RanToBanner

\* C5: main issues its requests one at a time in the fixed order rates,
\* debt (7 days ago .. today), EUR, GBP, JPY, CAD, monthly statement,
\* whatever the responses: the requests issued so far are always the first
\* ones of that list, and at most one is unanswered, namely the last issued.
C5_SequentialFixedOrder ==
    /\ Len(log) <= 7
    /\ log = SubSeq(ExpectedRequests(today), 1, Len(log))
    /\ Len(inflight) <= 1
    /\ inflight # <<>> => inflight = <<log[Len(log)]>>
    /\ (pc = "done" /\ ~raised) => Len(log) = 7

C5_Witness ==
    /\ pc = "done"
    /\ Len(log) = 7
    /\ Len(failures) = 3
    /\ log[6].params.filter = "currency:eq:CAD"

====
